---- MODULE Spec2Model ----
(***************************************************************************)
(* Model of src/flora/vectorize.py: add_sentences_to_chromadb, the         *)
(* preflight _ensure_ollama_available, call_llama_with_context and the      *)
(* standalone run under __main__.                                           *)
(*                                                                          *)
(* Text is a sequence of cells.  A cell is one character of an input (a     *)
(* letter, a space, a line feed), one digit or sign produced by integer     *)
(* formatting, or one literal fragment of the source that begins and ends   *)
(* with a non-blank character.  Whitespace handling (strip, dedent, the     *)
(* split into lines) therefore acts on the model's text exactly as it acts  *)
(* on the program's.  Inputs hold spaces and line feeds only as whitespace  *)
(* (no tabs), so a line's indentation is its number of leading spaces.      *)
(***************************************************************************)
EXTENDS Integers, Sequences, FiniteSets

VARIABLES
    pc,             \* control point of the running code
    inMain,         \* TRUE when call_llama_with_context was called by __main__
    question,       \* call_llama_with_context: parameter
    retrieved_docs, \* call_llama_with_context: parameter
    prompt,         \* call_llama_with_context: local, None before line 61
    result,         \* outcome of the last call_llama_with_context
    which,          \* environment: what shutil.which("ollama") found
    proc,           \* environment: what subprocess.run did
    runCalls,       \* number of subprocess.run calls made
    started,        \* number of subordinate processes that started
    collections,    \* store: names of the collections that exist
    addLog,         \* store: the batches passed to collection.add, in order
    calls,          \* add_sentences_to_chromadb calls made, in order
    top_docs,       \* __main__: documents taken from the query result
    answer,         \* __main__: value returned by call_llama_with_context
    out,            \* __main__: what was printed, in order
    raised,         \* fault that propagated out of the running code
    queries,        \* collection.query calls made and how each ended, in order
    trace           \* stages entered, in order

vars == <<pc, inMain, question, retrieved_docs, prompt, result, which, proc,
          runCalls, started, collections, addLog, calls, top_docs, answer,
          out, raised, queries, trace>>

callVars == <<question, retrieved_docs, prompt, result, which, proc,
              runCalls, started>>
storeVars == <<collections, addLog, calls, queries>>
mainVars == <<top_docs, answer, out>>

(***************************************************************************)
(* Bounds of the explored inputs.                                           *)
(***************************************************************************)
MaxQLen == 2
MaxDocLen == 1
MaxDocs == 2
MaxOutLen == 2
MaxSentences == 1
MaxLongBatch == 11
MaxCalls == 2

SP == " "
NL == "\n"
None == <<"None">>

Alphabet == {"a", SP, NL}

RECURSIVE StrsOfLen(_, _)
StrsOfLen(S, n) ==
    IF n = 0 THEN {<<>>}
    ELSE {<<c>> \o s : c \in S, s \in StrsOfLen(S, n - 1)}

\* every text over S of at most n cells
Strs(S, n) == UNION {StrsOfLen(S, k) : k \in 0..n}

Min(S) == CHOOSE x \in S : \A y \in S : x <= y
Max(S) == CHOOSE x \in S : \A y \in S : x >= y

IsSpace(c) == c \in {SP, NL}

\* str.strip(): leading and trailing whitespace removed
Strip(s) ==
    LET keep == {i \in 1..Len(s) : ~IsSpace(s[i])}
    IN  IF keep = {} THEN <<>> ELSE SubSeq(s, Min(keep), Max(keep))

\* f"{n}" for an integer n
RECURSIVE Digits(_)
Digits(n) ==
    LET d == <<"0", "1", "2", "3", "4", "5", "6", "7", "8", "9">>
    IN  IF n < 10 THEN <<d[n + 1]>>
        ELSE Digits(n \div 10) \o <<d[(n % 10) + 1]>>

Decimal(n) == IF n < 0 THEN <<"-">> \o Digits(0 - n) ELSE Digits(n)

\* s.split("\n")
RECURSIVE SplitLines(_)
SplitLines(s) ==
    LET nls == {i \in 1..Len(s) : s[i] = NL}
    IN  IF nls = {} THEN <<s>>
        ELSE <<SubSeq(s, 1, Min(nls) - 1)>>
                 \o SplitLines(SubSeq(s, Min(nls) + 1, Len(s)))

\* sep.join(parts)
RECURSIVE Join(_, _)
Join(sep, parts) ==
    IF parts = <<>> THEN <<>>
    ELSE IF Len(parts) = 1 THEN parts[1]
    ELSE parts[1] \o sep \o Join(sep, Tail(parts))

IsBlankLine(l) == \A i \in 1..Len(l) : l[i] = SP

LeadingSpaces(l) ==
    LET non == {i \in 1..Len(l) : l[i] # SP}
    IN  IF non = {} THEN Len(l) ELSE Min(non) - 1

\* textwrap.dedent(text): lines of blanks only become empty, then the
\* indentation common to all remaining lines is removed from each of them
Dedent(text) ==
    LET lines == SplitLines(text)
        norm == [i \in 1..Len(lines) |->
                    IF IsBlankLine(lines[i]) THEN <<>> ELSE lines[i]]
        indents == {LeadingSpaces(norm[i]) :
                        i \in {j \in 1..Len(norm) : norm[j] # <<>>}}
        margin == IF indents = {} THEN 0 ELSE Min(indents)
    IN  Join(<<NL>>, [i \in 1..Len(norm) |->
                        SubSeq(norm[i], margin + 1, Len(norm[i]))])


(***************************************************************************)
(* call_llama_with_context                                                  *)
(***************************************************************************)
NoResult == [tag |-> "none", val |-> None]
Returned(s) == [tag |-> "str", val |-> s]
Propagated(e) == [tag |-> "raise", val |-> e]

NoProc == [kind |-> "none", err |-> <<>>, returncode |-> 0,
           stdout |-> <<>>, stderr |-> <<>>]

MissingMsg ==
    <<"Ollama CLI not found. Please install from https://ollama.com and ensure \"ollama\" is on your PATH.">>

\* a preflight that reports nothing missing
EnsureOllamaAvailableNoCheck(found) == None

\* _ensure_ollama_available(), given whether shutil.which found the executable
EnsureOllamaAvailable(found) == IF ~found THEN MissingMsg ELSE None

Indent == <<SP, SP, SP, SP, SP, SP, SP, SP>>
Header1 ==
    "You are a helpful assistant. Use only the provided context to answer the user's"
Header2 ==
    "question. If the answer is not in the context, say you don't know."

\* "\n\n".join(f"- {d}" for d in retrieved_docs)
ContextBlock(docs) ==
    Join(<<NL, NL>>, [i \in 1..Len(docs) |-> <<"-", SP>> \o docs[i]])

\* the f-string of lines 62-71, context_block and question substituted
Template(context_block, q) ==
    <<NL>>
    \o Indent \o <<Header1, NL>>
    \o Indent \o <<Header2, NL>>
    \o <<NL>>
    \o Indent \o <<"Context:", NL>>
    \o Indent \o context_block \o <<NL>>
    \o <<NL>>
    \o Indent \o <<"Question:", SP>> \o q \o <<NL>>
    \o Indent \o <<"Answer:", NL>>
    \o Indent

BuildPrompt(q, docs) == Strip(Dedent(Template(ContextBlock(docs), q)))

\* what str(e) can be for an error raised by subprocess.run
LaunchErrors ==
    {<<>>,
     <<"[Errno 13] Permission denied: 'ollama'">>,
     <<"[Errno 2] No such file or directory: 'ollama'">>}

\* exit statuses of a process that started (negative: killed by a signal)
ExitCodes == {-9, 0, 1, 10, 255}

OutStrs == Strs(Alphabet, MaxOutLen)

LaunchError(e) == [kind |-> "launch_error", err |-> e, returncode |-> 0,
                   stdout |-> <<>>, stderr |-> <<>>]

Running == [kind |-> "running", err |-> <<>>, returncode |-> 0,
            stdout |-> <<>>, stderr |-> <<>>]

\* the CompletedProcess of a process that exited
Exited(c, o, e) == [kind |-> "exited", err |-> <<>>, returncode |-> c,
                    stdout |-> o, stderr |-> e]

\* no handler: the error leaves the call
ExceptHandlerAbsent(e) == Propagated(e)

\* except Exception as e: return f"Failed to invoke Ollama: {e}"
ExceptHandler(e) == Returned(<<"Failed to invoke Ollama:", SP>> \o e)

\* the standard error put into the diagnostic as it came
ClassifyExitRawStderr(p) ==
    IF p.returncode # 0
    THEN Returned(<<"Ollama returned non-zero exit code", SP>>
                  \o Decimal(p.returncode) \o <<":", SP>> \o p.stderr)
    ELSE Returned(Strip(p.stdout))

\* the standard output returned with only its trailing whitespace removed
ClassifyExitRStripOnly(p) ==
    IF p.returncode # 0
    THEN Returned(<<"Ollama returned non-zero exit code", SP>>
                  \o Decimal(p.returncode) \o <<":", SP>> \o Strip(p.stderr))
    ELSE LET keep == {i \in 1..Len(p.stdout) : ~IsSpace(p.stdout[i])}
         IN  Returned(IF keep = {} THEN <<>>
                      ELSE SubSeq(p.stdout, 1, Max(keep)))

\* lines 86-90, for a process that exited
ClassifyExit(p) ==
    IF p.returncode # 0
    THEN Returned(<<"Ollama returned non-zero exit code", SP>>
                  \o Decimal(p.returncode) \o <<":", SP>> \o Strip(p.stderr))
    ELSE Returned(Strip(p.stdout))

\* the call ends with outcome r: its frame is discarded and control goes
\* back to the caller, or the fault goes on to the caller's caller
Return(r) ==
    /\ result' = r
    /\ question' = None
    /\ retrieved_docs' = None
    /\ prompt' = None
    /\ pc' = IF r.tag = "raise" THEN "crashed"
             ELSE IF inMain THEN "print_answer" ELSE "returned"
    /\ answer' = IF inMain /\ r.tag = "str" THEN r.val ELSE answer
    /\ raised' = IF r.tag = "raise" THEN r.val ELSE raised

\* lines 56-58
Preflight ==
    /\ pc = "call_preflight"
    /\ \E found \in BOOLEAN :
        /\ which' = IF found THEN "found" ELSE "missing"
        /\ LET missing == EnsureOllamaAvailable(found)
           IN  IF missing # None /\ missing # <<>>
               THEN Return(Returned(missing))
               ELSE /\ pc' = "call_build"
                    /\ UNCHANGED <<question, retrieved_docs, prompt, result,
                                   answer, raised>>
    /\ trace' = Append(trace, "preflight")
    /\ UNCHANGED <<inMain, proc, runCalls, started, storeVars, top_docs, out>>

\* lines 60-72
BuildPromptStep ==
    /\ pc = "call_build"
    /\ prompt' = BuildPrompt(question, retrieved_docs)
    /\ pc' = "call_invoke"
    /\ trace' = Append(trace, "build_prompt")
    /\ UNCHANGED <<inMain, question, retrieved_docs, result, which, proc,
                   runCalls, started, storeVars, mainVars, raised>>

\* lines 74-84: subprocess.run is called with the prompt as input.  Either
\* it raises and the handler returns, or the process starts (only an
\* executable that exists can) and the call waits for it.  Nothing after
\* line 82 reads question, retrieved_docs or prompt: they are dropped here.
Invoke ==
    /\ pc = "call_invoke"
    /\ runCalls' = runCalls + 1
    /\ \/ \E e \in LaunchErrors :
            /\ proc' = LaunchError(e)
            /\ Return(ExceptHandler(e))
            /\ UNCHANGED started
       \/ /\ which = "found"
          /\ proc' = Running
          /\ started' = started + 1
          /\ pc' = "call_wait"
          /\ question' = None
          /\ retrieved_docs' = None
          /\ prompt' = None
          /\ UNCHANGED <<result, answer, raised>>
    /\ trace' = Append(trace, "run")
    /\ UNCHANGED <<inMain, which, storeVars, top_docs, out>>

\* lines 76-90: the process exits, subprocess.run returns, the outcome is
\* classified
ProcessExit ==
    /\ pc = "call_wait"
    /\ \E c \in ExitCodes, o \in OutStrs, e \in OutStrs :
        /\ proc' = Exited(c, o, e)
        /\ Return(ClassifyExit(Exited(c, o, e)))
    /\ UNCHANGED <<inMain, which, runCalls, started, storeVars, top_docs,
                   out, trace>>

DocInputs == Strs(Alphabet, MaxDocLen)

DocLists == UNION {[1..n -> DocInputs] : n \in 0..MaxDocs}

InitEnv ==
    /\ prompt = None
    /\ result = NoResult
    /\ which = "unknown"
    /\ proc = NoProc
    /\ runCalls = 0
    /\ started = 0
    /\ collections = {}
    /\ addLog = <<>>
    /\ calls = <<>>
    /\ top_docs = None
    /\ answer = None
    /\ out = <<>>
    /\ raised = None
    /\ queries = <<>>
    /\ trace = <<>>

\* one call of call_llama_with_context on any question and documents
InitGenerate ==
    /\ pc = "call_preflight"
    /\ inMain = FALSE
    /\ question \in Strs(Alphabet, MaxQLen)
    /\ retrieved_docs \in DocLists
    /\ InitEnv

NextGenerate == Preflight \/ BuildPromptStep \/ Invoke \/ ProcessExit

SpecGenerate == InitGenerate /\ [][NextGenerate]_vars


(***************************************************************************)
(* add_sentences_to_chromadb and the store behind it                        *)
(***************************************************************************)
DefaultCollection == "sentences_collection"

\* identifiers numbered from 1
MakeIdsFromOne(sentences) ==
    [i \in 1..Len(sentences) |-> <<"sentence-">> \o Decimal(i)]

\* every identifier formatted from the length instead of the position
MakeIdsFromLen(sentences) ==
    [i \in 1..Len(sentences) |-> <<"sentence-">> \o Decimal(Len(sentences))]

\* [f"sentence-{i}" for i in range(len(sentences))]
MakeIds(sentences) ==
    [i \in 1..Len(sentences) |-> <<"sentence-">> \o Decimal(i - 1)]

\* where the store can fail during one call: creating the client (line 19),
\* get_or_create_collection (line 23), add (line 27)
StoreFaults == {"none", "client", "get_or_create", "add"}

\* add_sentences_to_chromadb(sentences, name) with the store failing at
\* `fault`: the effect on the store; a fault is not caught and propagates
AddSentences(sentences, name, fault) ==
    /\ calls' = Append(calls, [sentences |-> sentences, name |-> name,
                               fault |-> fault])
    /\ collections' = IF fault \in {"none", "add"}
                      THEN collections \cup {name} ELSE collections
    /\ addLog' = IF fault \in {"none", "add"}
                 THEN Append(addLog, [call |-> Len(calls) + 1,
                                      name |-> name,
                                      documents |-> sentences,
                                      ids |-> MakeIds(sentences),
                                      stored |-> fault = "none"])
                 ELSE addLog
    /\ raised' = IF fault = "none" THEN None ELSE <<"store fault", fault>>

IndexDocs == {<<"a">>, <<"b">>}

\* a batch of n documents, not the same read backwards
LongBatch(n) == [i \in 1..n |-> IF i % 3 = 1 THEN <<"a">> ELSE <<"b">>]

\* the document sequences tried: every short one, and a long one whose
\* identifiers need two digits
SentenceInputs ==
    UNION {[1..n -> IndexDocs] : n \in 0..MaxSentences}
    \cup {LongBatch(MaxLongBatch)}

CollectionNames == {DefaultCollection, "other"}

\* a caller's call of add_sentences_to_chromadb
IndexCall ==
    /\ pc = "idle"
    /\ Len(calls) < MaxCalls
    /\ \E s \in SentenceInputs, name \in CollectionNames, f \in StoreFaults :
        AddSentences(s, name, f)
    /\ trace' = Append(trace, "index")
    /\ UNCHANGED <<pc, inMain, callVars, mainVars, queries>>

InitIndex ==
    /\ pc = "idle"
    /\ inMain = FALSE
    /\ question = None
    /\ retrieved_docs = None
    /\ InitEnv

NextIndex == IndexCall

SpecIndex == InitIndex /\ [][NextIndex]_vars

(***************************************************************************)
(* the standalone run, lines 92-121                                         *)
(***************************************************************************)
Sentences ==
    << <<"How are you?">>,
       <<"What did you do today?">>,
       <<"What did you have for dinner?">>,
       <<"What's on your agenda?">> >>

UserQuestion == <<"What did you have for dinner?">>

NResults == 3

\* the documents the store holds for a collection, in insertion order
StoredDocs(name) ==
    LET RECURSIVE Docs(_)
        Docs(i) ==
            IF i = 0 THEN <<>>
            ELSE Docs(i - 1) \o (IF addLog[i].name = name /\ addLog[i].stored
                                 THEN addLog[i].documents ELSE <<>>)
    IN  Docs(Len(addLog))

\* what collection.query can answer: the store ranks by a metric of its own,
\* so any order of any min(k, count) of the stored documents
QueryResults(docs, k) ==
    LET n == IF Len(docs) < k THEN Len(docs) ELSE k
        picks == {f \in [1..n -> 1..Len(docs)] :
                    \A i, j \in 1..n : i # j => f[i] # f[j]}
    IN  {[documents |-> << [i \in 1..n |-> docs[f[i]]] >>] : f \in picks}

\* lines 112-113
TopDocs(results) ==
    LET retrieved == results.documents
    IN  IF retrieved # <<>> THEN retrieved[1] ELSE <<>>

\* enumerate without its start argument
ContextLinesFromZero(docs) ==
    [i \in 1..Len(docs) |->
        <<SP, SP>> \o Decimal(i - 1) \o <<".", SP>> \o docs[i]]

\* lines 116-117: for i, d in enumerate(top_docs, 1): print(f"  {i}. {d}")
ContextLines(docs) ==
    [i \in 1..Len(docs) |-> <<SP, SP>> \o Decimal(i) \o <<".", SP>> \o docs[i]]

\* line 100
MainIndex ==
    /\ pc = "main_index"
    /\ \E f \in StoreFaults :
        /\ AddSentences(Sentences, DefaultCollection, f)
        /\ pc' = IF f = "none" THEN "main_query" ELSE "crashed"
    /\ trace' = Append(trace, "index")
    /\ UNCHANGED <<inMain, callVars, mainVars, queries>>

\* a query whose fault is caught and answered with no documents
MainQueryCaught ==
    /\ pc = "main_query"
    /\ \/ /\ queries' = Append(queries, "fault")
          /\ top_docs' = <<>>
          /\ pc' = "main_print_context"
       \/ \E r \in QueryResults(StoredDocs(DefaultCollection), NResults) :
            /\ queries' = Append(queries, "ok")
            /\ top_docs' = TopDocs(r)
            /\ pc' = "main_print_context"
    /\ trace' = Append(trace, "query")
    /\ UNCHANGED <<inMain, callVars, collections, addLog, calls, answer, out,
                   raised>>

\* lines 105-113: a fault of the store is not caught
MainQuery ==
    /\ pc = "main_query"
    /\ \/ /\ queries' = Append(queries, "fault")
          /\ raised' = <<"store fault", "query">>
          /\ pc' = "crashed"
          /\ UNCHANGED top_docs
       \/ \E r \in QueryResults(StoredDocs(DefaultCollection), NResults) :
            /\ queries' = Append(queries, "ok")
            /\ top_docs' = TopDocs(r)
            /\ pc' = "main_print_context"
            /\ UNCHANGED raised
    /\ trace' = Append(trace, "query")
    /\ UNCHANGED <<inMain, callVars, collections, addLog, calls, answer, out>>

\* lines 115-117
PrintContext ==
    /\ pc = "main_print_context"
    /\ out' = out \o <<<<"Retrieved context:">>>> \o ContextLines(top_docs)
    /\ pc' = "main_call"
    /\ trace' = Append(trace, "print_context")
    /\ UNCHANGED <<inMain, callVars, storeVars, top_docs, answer, raised>>

\* lines 119-120, up to the entry of call_llama_with_context
MainCall ==
    /\ pc = "main_call"
    /\ out' = Append(out, <<NL, "Asking llama3.1 with retrieved context...",
                            NL>>)
    /\ question' = UserQuestion
    /\ retrieved_docs' = top_docs
    /\ pc' = "call_preflight"
    /\ trace' = Append(trace, "call")
    /\ UNCHANGED <<inMain, prompt, result, which, proc, runCalls, started,
                   storeVars, top_docs, answer, raised>>

\* line 121
PrintAnswer ==
    /\ pc = "print_answer"
    /\ out' = Append(out, <<"Answer:", NL>> \o answer)
    /\ pc' = "done"
    /\ trace' = Append(trace, "print_answer")
    /\ UNCHANGED <<inMain, callVars, storeVars, top_docs, answer, raised>>

Init ==
    /\ pc = "main_index"
    /\ inMain = TRUE
    /\ question = None
    /\ retrieved_docs = None
    /\ InitEnv

Next ==
    \/ MainIndex
    \/ MainQuery
    \/ PrintContext
    \/ MainCall
    \/ Preflight
    \/ BuildPromptStep
    \/ Invoke
    \/ ProcessExit
    \/ PrintAnswer

Spec == Init /\ [][Next]_vars


(***************************************************************************)
(* Properties                                                               *)
(***************************************************************************)
\* text e occurs in text s
Embeds(s, e) ==
    \E i \in 0..(Len(s) - Len(e)) : SubSeq(s, i + 1, i + Len(e)) = e

\* t is s without its leading and trailing whitespace, said without Strip
IsTrimOf(t, s) ==
    /\ t # <<>> => ~IsSpace(t[1]) /\ ~IsSpace(t[Len(t)])
    /\ \E i \in 0..Len(s) :
        /\ i + Len(t) <= Len(s)
        /\ SubSeq(s, i + 1, i + Len(t)) = t
        /\ \A k \in 1..Len(s) :
            (k <= i \/ k > i + Len(t)) => IsSpace(s[k])

\* C1: call_llama_with_context never raises: whatever the question, the
\* documents and the runtime do (executable missing, launch error, non-zero
\* exit, zero exit), no fault leaves the call, a call under way can always go
\* on, and it ends by returning a string; after a launch error that string
\* embeds the error's description.
C1_NeverRaises ==
    /\ raised = None
    /\ pc # "crashed"
    /\ result.tag # "raise"
    /\ pc = "returned" => result.tag = "str" /\ result.val # None
    /\ (pc = "returned" /\ proc.kind = "launch_error") =>
            /\ Embeds(result.val, proc.err)
            /\ Len(result.val) > Len(proc.err)

C1_Witness ==
    /\ pc = "returned"
    /\ proc.kind = "launch_error"
    /\ proc.err # <<>>
    /\ result.tag = "str"

\* C2: when the executable is not found, the call returns the fixed
\* dependency-missing message, whatever the question and the documents, and
\* in that call subprocess.run is never called and no process starts: the
\* preflight is the only stage entered.
C2_MissingNoProcess ==
    which = "missing" =>
        /\ pc = "returned"
        /\ result = Returned(MissingMsg)
        /\ runCalls = 0
        /\ started = 0
        /\ proc = NoProc
        /\ trace = <<"preflight">>

C2_Witness == which = "missing" /\ pc = "returned" /\ result.tag = "str"

\* C3: when the process started and exited with a non-zero status c and
\* standard error e, the returned string holds the decimal form of c and
\* ends with e trimmed of leading and trailing whitespace, and it is not the
\* process's standard output, trimmed or not.
C3_NonZeroExit ==
    (pc = "returned" /\ proc.kind = "exited" /\ proc.returncode # 0) =>
        /\ result.tag = "str"
        /\ \E i \in 0..Len(result.val) :
            /\ Embeds(SubSeq(result.val, 1, i), Decimal(proc.returncode))
            /\ IsTrimOf(SubSeq(result.val, i + 1, Len(result.val)),
                        proc.stderr)
        /\ result.val # proc.stdout
        /\ ~IsTrimOf(result.val, proc.stdout)

C3_Witness ==
    /\ pc = "returned"
    /\ proc.kind = "exited"
    /\ proc.returncode = 255
    /\ proc.stderr = <<"a", NL>>
    /\ proc.stdout = <<"a">>
    /\ result.tag = "str"

\* C4: when the process exited with status zero, the returned string is
\* exactly the standard output trimmed of leading and trailing whitespace,
\* whatever the standard error held.
C4_ZeroExit ==
    (pc = "returned" /\ proc.kind = "exited" /\ proc.returncode = 0) =>
        /\ result.tag = "str"
        /\ IsTrimOf(result.val, proc.stdout)

C4_Witness ==
    /\ pc = "returned"
    /\ proc.kind = "exited"
    /\ proc.returncode = 0
    /\ proc.stdout = <<"a", NL>>
    /\ proc.stderr = <<"a", SP>>
    /\ result = Returned(<<"a">>)


\* the number a text of digits stands for
RECURSIVE NumberOf(_)
NumberOf(t) ==
    LET v == [c \in {"0", "1", "2", "3", "4", "5", "6", "7", "8", "9"} |->
                CASE c = "0" -> 0 [] c = "1" -> 1 [] c = "2" -> 2
                  [] c = "3" -> 3 [] c = "4" -> 4 [] c = "5" -> 5
                  [] c = "6" -> 6 [] c = "7" -> 7 [] c = "8" -> 8
                  [] c = "9" -> 9]
    IN  IF t = <<>> THEN 0
        ELSE 10 * NumberOf(SubSeq(t, 1, Len(t) - 1)) + v[t[Len(t)]]

\* id is "sentence-" followed by n in decimal with no leading zero
IsSentenceId(id, n) ==
    /\ Len(id) >= 2
    /\ id[1] = "sentence-"
    /\ \A k \in 2..Len(id) :
        id[k] \in {"0", "1", "2", "3", "4", "5", "6", "7", "8", "9"}
    /\ Len(id) > 2 => id[2] # "0"
    /\ NumberOf(Tail(id)) = n

BatchesOfCall(k) == {i \in 1..Len(addLog) : addLog[i].call = k}

\* C5: for a call with n >= 1 documents that gets as far as the add, the
\* store is passed exactly one batch, to the collection named, holding the
\* documents as given and n identifiers, the i-th being "sentence-(i-1)";
\* no identifier occurs twice in it.  A call that fails before the add
\* passes nothing.
C5_IdsInInputOrder ==
    \A k \in 1..Len(calls) :
        LET c == calls[k]
        IN  /\ (Len(c.sentences) >= 1 /\ c.fault \in {"none", "add"}) =>
                /\ Cardinality(BatchesOfCall(k)) = 1
                /\ \A b \in BatchesOfCall(k) :
                    /\ addLog[b].name = c.name
                    /\ addLog[b].documents = c.sentences
                    /\ Len(addLog[b].ids) = Len(c.sentences)
                    /\ \A i \in 1..Len(c.sentences) :
                        IsSentenceId(addLog[b].ids[i], i - 1)
                    /\ \A i, j \in 1..Len(addLog[b].ids) :
                        i # j => addLog[b].ids[i] # addLog[b].ids[j]
            /\ c.fault \in {"client", "get_or_create"} =>
                BatchesOfCall(k) = {}

C5_Witness ==
    \E b \in 1..Len(addLog) :
        /\ Len(addLog[b].documents) = MaxLongBatch
        /\ addLog[b].documents[1] # addLog[b].documents[2]
        /\ addLog[b].stored

\* all identifiers passed to a collection, in order
RECURSIVE IdsUpTo(_, _)
IdsUpTo(name, n) ==
    IF n = 0 THEN <<>>
    ELSE IdsUpTo(name, n - 1)
         \o (IF addLog[n].name = name THEN addLog[n].ids ELSE <<>>)

RECURSIVE DocsUpTo(_, _)
DocsUpTo(name, n) ==
    IF n = 0 THEN <<>>
    ELSE DocsUpTo(name, n - 1)
         \o (IF addLog[n].name = name THEN addLog[n].documents ELSE <<>>)

NoDuplicate(seq) ==
    \A i, j \in 1..Len(seq) : i # j => seq[i] # seq[j]

NonEmptyBatches(name) ==
    {b \in 1..Len(addLog) : addLog[b].name = name /\ addLog[b].ids # <<>>}

\* C6 as stated: after any sequence of calls no identifier has been passed
\* twice to the same collection, and each collection was passed as many
\* documents as identifiers.
C6_NoCollisionEver ==
    \A name \in CollectionNames :
        /\ NoDuplicate(IdsUpTo(name, Len(addLog)))
        /\ Len(DocsUpTo(name, Len(addLog))) = Len(IdsUpTo(name, Len(addLog)))

\* C6 amended: after any sequence of calls no identifier occurs twice within
\* one batch, each collection was passed as many documents as identifiers,
\* and a collection that was passed at most one non-empty batch holds no
\* identifier twice; every further non-empty batch to the same collection
\* starts again at "sentence-0".
C6_NoCollisionWithinBatch ==
    /\ \A b \in 1..Len(addLog) :
        /\ NoDuplicate(addLog[b].ids)
        /\ Len(addLog[b].ids) = Len(addLog[b].documents)
        /\ addLog[b].ids # <<>> => IsSentenceId(addLog[b].ids[1], 0)
    /\ \A name \in CollectionNames :
        /\ Len(DocsUpTo(name, Len(addLog))) = Len(IdsUpTo(name, Len(addLog)))
        /\ Cardinality(NonEmptyBatches(name)) <= 1 =>
                NoDuplicate(IdsUpTo(name, Len(addLog)))

C6_Witness ==
    \E name \in CollectionNames :
        /\ Cardinality(NonEmptyBatches(name)) = 2
        /\ \A b \in NonEmptyBatches(name) : Len(addLog[b].ids) >= 2


PromptLines == SplitLines(prompt)

\* the line of the prompt that holds the literal fragment tok
LineWith(tok) ==
    CHOOSE i \in 1..Len(PromptLines) :
        \E k \in 1..Len(PromptLines[i]) : PromptLines[i][k] = tok

\* the position of the literal fragment tok in the prompt
PosOf(tok) == CHOOSE i \in 1..Len(prompt) : prompt[i] = tok

HasMarkers ==
    \A tok \in {Header1, Header2, "Context:", "Question:", "Answer:"} :
        \E i \in 1..Len(prompt) : prompt[i] = tok

\* the lines between the "Context:" line and the "Question:" line
ContextSection ==
    SubSeq(PromptLines, LineWith("Context:") + 1, LineWith("Question:") - 1)

NonBlank(lines) == LET Filled(l) == l # <<>> IN SelectSeq(lines, Filled)

BulletLines(docs) == [i \in 1..Len(docs) |-> <<"-", SP>> \o docs[i]]

PromptBuilt == pc = "call_invoke"

HasLineBreak(t) == \E i \in 1..Len(t) : t[i] = NL

\* inputs that hold no line break, so that every document fits on one line
SingleLineInputs ==
    /\ ~HasLineBreak(question)
    /\ \A i \in 1..Len(retrieved_docs) : ~HasLineBreak(retrieved_docs[i])

\* C7: in the prompt sent to the runtime the context section lists each
\* document as exactly one line that starts with "- ", in input order, a
\* blank line after each, so it holds as many bullet lines as there are
\* documents; the section comes after the instruction header and before the
\* question, and "Answer:" comes last.  Stated here for the questions and
\* documents that hold no line break, a part of the inputs the claim covers.
C7_OneBulletLinePerDoc ==
    (PromptBuilt /\ SingleLineInputs) =>
        /\ HasMarkers
        /\ NonBlank(ContextSection) = BulletLines(retrieved_docs)
        /\ \A k \in 1..(Len(ContextSection) - 1) :
            ContextSection[k] # <<>> => ContextSection[k + 1] = <<>>
        /\ LineWith(Header1) < LineWith("Context:")
        /\ LineWith(Header2) < LineWith("Context:")
        /\ LineWith("Context:") < LineWith("Question:")
        /\ LineWith("Question:") < LineWith("Answer:")
        /\ prompt[Len(prompt)] = "Answer:"

\* C8: the prompt holds the question verbatim after the context section,
\* whatever the question and the documents, and with no documents the
\* context section has no bullet line while the "Context:", "Question:" and
\* "Answer:" markers are still there.
C8_QuestionVerbatim ==
    PromptBuilt =>
        /\ HasMarkers
        /\ \E j \in (PosOf("Question:") + 1)..(Len(prompt) + 1) :
            /\ j + Len(question) - 1 <= Len(prompt)
            /\ SubSeq(prompt, j, j + Len(question) - 1) = question
        /\ retrieved_docs = <<>> => NonBlank(ContextSection) = <<>>

IsPrefix(a, b) == Len(a) <= Len(b) /\ SubSeq(b, 1, Len(a)) = a

StoreFaultSeen ==
    \/ \E k \in 1..Len(calls) : calls[k].fault # "none"
    \/ \E k \in 1..Len(queries) : queries[k] = "fault"

GenerationFailed ==
    \/ which = "missing"
    \/ proc.kind = "launch_error"
    \/ proc.kind = "exited" /\ proc.returncode # 0

AnswerPrinted ==
    \E k \in 1..Len(out) : out[k] # <<>> /\ out[k][1] = "Answer:"

\* C9: a fault of the store during insertion or query is not caught: it
\* leaves the run as a fault, nothing is retried, the runtime is never
\* invoked and no answer is printed; a failure on the generation side ends
\* in a returned string, which the run goes on to print.
C9_StoreFaultsPropagate ==
    /\ Len(calls) <= 1
    /\ Len(queries) <= 1
    /\ StoreFaultSeen <=> pc = "crashed"
    /\ StoreFaultSeen <=> raised # None
    /\ pc = "crashed" =>
        /\ runCalls = 0
        /\ started = 0
        /\ which = "unknown"
        /\ result = NoResult
        /\ ~AnswerPrinted
    /\ (pc \in {"print_answer", "done"} /\ GenerationFailed) =>
        /\ result.tag = "str"
        /\ answer = result.val
    /\ pc = "done" =>
        /\ out[Len(out)] = <<"Answer:", NL>> \o result.val
        /\ result.tag = "str"

C9_Witness ==
    /\ pc = "crashed"
    /\ queries = <<"fault">>
    /\ Len(addLog) = 1
    /\ raised = <<"store fault", "query">>

FullRun ==
    <<"index", "query", "print_context", "call", "preflight",
      "build_prompt", "run", "print_answer">>

RunWithoutRuntime ==
    <<"index", "query", "print_context", "call", "preflight",
      "print_answer">>

ContextPrinted == Len(trace) >= 3 /\ trace[3] = "print_context"

\* C10: the stages of a standalone run happen one after another in the
\* order index, query, print context, call (preflight, prompt construction,
\* at most one process start), print answer, each at most once; the context
\* is printed as a list numbered from 1 in result order, the call gets the
\* same documents in the same order, and the context is printed before the
\* generation result.
C10_StagesInOrder ==
    /\ IsPrefix(trace, FullRun) \/ IsPrefix(trace, RunWithoutRuntime)
    /\ runCalls <= 1
    /\ started <= 1
    /\ Len(calls) <= 1
    /\ Len(queries) <= 1
    /\ started = 1 => IsPrefix(SubSeq(FullRun, 1, 7), trace)
    /\ pc \in {"call_preflight", "call_build", "call_invoke"} =>
        /\ question = UserQuestion
        /\ retrieved_docs = top_docs
    /\ ContextPrinted =>
        /\ Len(out) >= 1 + Len(top_docs)
        /\ out[1] = <<"Retrieved context:">>
        /\ \A i \in 1..Len(top_docs) :
            out[1 + i] = <<SP, SP, <<"1", "2", "3">>[i], ".", SP>>
                         \o top_docs[i]
    /\ AnswerPrinted =>
        /\ ContextPrinted
        /\ pc = "done"
        /\ Len(out) = Len(top_docs) + 3
        /\ out[Len(out)] = <<"Answer:", NL>> \o answer

C10_Witness ==
    /\ pc = "done"
    /\ trace = FullRun
    /\ started = 1
    /\ Len(top_docs) = NResults
    /\ top_docs[1] = Sentences[3]
    /\ top_docs[2] = Sentences[1]

====
